---------------------------- MODULE Spec2Model ----------------------------
(***************************************************************************)
(* Model of tools/addfunctionstoindex.cpp: main() loads a binary, pushes   *)
(* one job per function onto a thread pool, and every job filters,         *)
(* fingerprints and inserts its function into the shared search index.     *)
(*                                                                         *)
(* A worker's pc names the statement it is executing (or blocked on).      *)
(***************************************************************************)
EXTENDS Integers, Sequences, FiniteSets, TLC

\* ---------------------------------------------------------------- bounds
MaxFunctions == 3
NumWorkers == 2
\* Jobs whose hasher result may have a length other than two.
MaxFaults == 1

\* ------------------------------------------------------ program constants
\* (1ULL << 14), the free-space margin of the capacity pre-check.
SafetyMargin == 16384
\* FLAGS_minimum_function_size (default).
minimum_size == 5
\* GenerateExecutableID(binary_path_string): one fixed id per run.
file_id == 7
\* Bytes one AddFunction takes from the index file.
EntryCost == 12288

Workers == 1..NumWorkers
Addresses == 1..MaxFunctions
\* Branching-node counts the flow graphs of the catalog may have.
BranchingNodeCounts == {2, 5, 10}
\* Free space of the index file when it is opened.
InitialFreeSpace == {8192, 16384, 24576, 65536}
\* Length of the vector the hasher fills for 128 bits: two 64-bit values.
ContractLength == 2
\* Lengths of the vector when the hasher breaks that contract.
MalformedLengths == {1, 3}
\* What a read past the end of the vector may yield.
Garbage == {0, 1}

VARIABLES
  main_pc,                \* position of main()
  exit_code,              \* process exit status, once main_pc = "exit"
  FLAGS_no_shared_blocks,
  binary_path_empty,      \* binary_path_string == ""
  number_of_functions,    \* functions.size()
  next_function,          \* position of the for loop over functions
  shared_functions,       \* addresses ContainsSharedBasicBlocks was true for
  hardware_concurrency,   \* threads of the pool (0: pool not constructed)
  queue,                  \* jobs pushed to the pool and not yet taken
  pushed,                 \* number of pool.Push calls made
  pc,                     \* worker -> statement
  job,                    \* worker -> address of the function of its job
  mutex,                  \* search_index_mutex: 0 free, else owning worker
  processed_functions,    \* atomic_processed_functions
  free_space,             \* search_index.GetIndexFileFreeSpace()
  index,                  \* entries AddFunction has inserted
  branching,              \* address -> branching nodes of its graph (0: none)
  free_seen,              \* worker -> free space its job read (-1: none)
  hashes,                 \* worker -> vector filled by the hasher
  hash_AB,                \* worker -> <<hash_A, hash_B>>
  outcome,                \* address -> how its job ended
  faults,                 \* hasher results so far whose length is not two
  crashed                 \* the process was killed by a fault

main_vars == <<main_pc, exit_code, FLAGS_no_shared_blocks, binary_path_empty,
               number_of_functions, next_function, shared_functions,
               hardware_concurrency>>
local_vars == <<free_seen, hashes, hash_AB>>
pool_vars == <<queue, pushed, pc, job, mutex, processed_functions,
               free_space, index, branching, free_seen, hashes, hash_AB,
               outcome, faults, crashed>>
vars == <<main_pc, exit_code, FLAGS_no_shared_blocks, binary_path_empty,
          number_of_functions, next_function, shared_functions,
          hardware_concurrency, queue, pushed, pc, job, mutex,
          processed_functions, free_space, index, branching, free_seen,
          hashes, hash_AB, outcome, faults, crashed>>

Outcomes == {"none", "skipped_size", "index_full", "added", "bad_alloc",
             "extraction_fault"}

\* One index entry.
IndexEntry(hash_A, hash_B, id, address) ==
  [hash_A |-> hash_A, hash_B |-> hash_B, file_id |-> id, address |-> address]

\* The values CalculateFunctionSimHash leaves in the vector for a function.
SimHash(address, len) == [i \in 1..len |-> 10 * address + i]

Init ==
  /\ main_pc = "ParseCommandLineFlags"
  /\ exit_code = 0
  /\ FLAGS_no_shared_blocks = FALSE
  /\ binary_path_empty = FALSE
  /\ number_of_functions = 0
  /\ next_function = 1
  /\ shared_functions = {}
  /\ hardware_concurrency = 0
  /\ queue = << >>
  /\ pushed = 0
  /\ pc = [w \in Workers |-> "idle"]
  /\ job = [w \in Workers |-> 0]
  /\ mutex = 0
  /\ processed_functions = 0
  /\ free_space = 0
  /\ index = {}
  /\ branching = [a \in Addresses |-> 0]
  /\ free_seen = [w \in Workers |-> -1]
  /\ hashes = [w \in Workers |-> << >>]
  /\ hash_AB = [w \in Workers |-> << >>]
  /\ outcome = [a \in Addresses |-> "none"]
  /\ faults = 0
  /\ crashed = FALSE

\* ------------------------------------------------------------------ main
ParseCommandLineFlags ==
  /\ main_pc = "ParseCommandLineFlags"
  /\ \E nsb \in BOOLEAN, empty \in BOOLEAN :
       /\ FLAGS_no_shared_blocks' = nsb
       /\ binary_path_empty' = empty
  /\ main_pc' = "check_input"
  /\ UNCHANGED <<exit_code, number_of_functions, next_function,
                 shared_functions, hardware_concurrency>>
  /\ UNCHANGED pool_vars

CheckInput ==
  /\ main_pc = "check_input"
  /\ IF binary_path_empty
       THEN main_pc' = "exit" /\ exit_code' = -1
       ELSE main_pc' = "SimHashSearchIndex" /\ UNCHANGED exit_code
  /\ UNCHANGED <<FLAGS_no_shared_blocks, binary_path_empty,
                 number_of_functions, next_function, shared_functions,
                 hardware_concurrency>>
  /\ UNCHANGED pool_vars

OpenSearchIndex ==
  /\ main_pc = "SimHashSearchIndex"
  /\ \E fr \in InitialFreeSpace : free_space' = fr
  /\ main_pc' = "Load"
  /\ UNCHANGED <<exit_code, FLAGS_no_shared_blocks, binary_path_empty,
                 number_of_functions, next_function, shared_functions,
                 hardware_concurrency>>
  /\ UNCHANGED <<queue, pushed, pc, job, mutex, processed_functions, index,
                 branching, free_seen, hashes, hash_AB, outcome, faults,
                 crashed>>

\* disassembly.Load() fails and the process exits, or yields the functions.
LoadDisassembly ==
  /\ main_pc = "Load"
  /\ \/ /\ main_pc' = "exit"
        /\ exit_code' = 1
        /\ UNCHANGED number_of_functions
     \/ /\ \E n \in 0..MaxFunctions : number_of_functions' = n
        /\ main_pc' = "check_functions"
        /\ UNCHANGED exit_code
  /\ UNCHANGED <<FLAGS_no_shared_blocks, binary_path_empty, next_function,
                 shared_functions, hardware_concurrency>>
  /\ UNCHANGED pool_vars

\* Mutant: an empty list of functions is not rejected.
CheckFunctions_Ignored ==
  /\ main_pc = "check_functions"
  /\ main_pc' = "loop"
  /\ \E n \in Workers : hardware_concurrency' = n
  /\ UNCHANGED <<exit_code, FLAGS_no_shared_blocks, binary_path_empty,
                 number_of_functions, next_function, shared_functions>>
  /\ UNCHANGED pool_vars

\* No functions: return -1.  Otherwise the pool is constructed with as
\* many threads as std::thread::hardware_concurrency() reports.
CheckFunctions ==
  /\ main_pc = "check_functions"
  /\ IF number_of_functions = 0
       THEN /\ main_pc' = "exit"
            /\ exit_code' = -1
            /\ UNCHANGED hardware_concurrency
       ELSE /\ main_pc' = "loop"
            /\ \E n \in Workers : hardware_concurrency' = n
            /\ UNCHANGED exit_code
  /\ UNCHANGED <<FLAGS_no_shared_blocks, binary_path_empty,
                 number_of_functions, next_function, shared_functions>>
  /\ UNCHANGED pool_vars

\* Mutant: the flag is not consulted.
SkipsFunction_IgnoresFlag(is_shared) == is_shared

\* Mutant: the shared-block test is dropped and every function is pushed.
SkipsFunction_Never(is_shared) == FALSE

\* The test at the head of the loop body; is_shared is what
\* ContainsSharedBasicBlocks(function) returns.
SkipsFunction(is_shared) == FLAGS_no_shared_blocks /\ is_shared

\* What ContainsSharedBasicBlocks(function) is for a function of the binary
\* (with the flag clear && short-circuits and the answer is not used).
SharedAnswers == BOOLEAN

AfterIteration(is_shared) ==
  /\ next_function' = next_function + 1
  /\ main_pc' = IF next_function = number_of_functions THEN "Stop" ELSE "loop"
  /\ shared_functions' = IF is_shared
                           THEN shared_functions \cup {next_function}
                           ELSE shared_functions
  /\ UNCHANGED <<exit_code, FLAGS_no_shared_blocks, binary_path_empty,
                 number_of_functions, hardware_concurrency>>

LoopContinue ==
  /\ main_pc = "loop"
  /\ ~crashed
  /\ \E is_shared \in SharedAnswers :
       /\ SkipsFunction(is_shared)
       /\ AfterIteration(is_shared)
  /\ UNCHANGED pool_vars

\* Mutant: every job is pushed for the first function of the list.
Push_FirstFunction ==
  /\ main_pc = "loop"
  /\ ~crashed
  /\ \E is_shared \in SharedAnswers :
       /\ ~SkipsFunction(is_shared)
       /\ AfterIteration(is_shared)
  /\ queue' = Append(queue, 1)
  /\ pushed' = pushed + 1
  /\ UNCHANGED <<pc, job, mutex, processed_functions, free_space, index,
                 branching, free_seen, hashes, hash_AB, outcome, faults,
                 crashed>>

Push ==
  /\ main_pc = "loop"
  /\ ~crashed
  /\ \E is_shared \in SharedAnswers :
       /\ ~SkipsFunction(is_shared)
       /\ AfterIteration(is_shared)
  /\ queue' = Append(queue, next_function)
  /\ pushed' = pushed + 1
  /\ UNCHANGED <<pc, job, mutex, processed_functions, free_space, index,
                 branching, free_seen, hashes, hash_AB, outcome, faults,
                 crashed>>

\* pool.Stop(true) returns once every pushed job has run; main returns 0.
Stop ==
  /\ main_pc = "Stop"
  /\ ~crashed
  /\ queue = << >>
  /\ \A w \in Workers : pc[w] = "idle"
  /\ main_pc' = "exit"
  /\ exit_code' = 0
  /\ UNCHANGED <<FLAGS_no_shared_blocks, binary_path_empty,
                 number_of_functions, next_function, shared_functions,
                 hardware_concurrency>>
  /\ UNCHANGED pool_vars

\* --------------------------------------------------------------- workers
Goto(w, label) == pc' = [pc EXCEPT ![w] = label]

\* The job returns: its locals are destroyed and the thread is idle again.
Return(w, how) ==
  /\ pc' = [pc EXCEPT ![w] = "idle"]
  /\ job' = [job EXCEPT ![w] = 0]
  /\ free_seen' = [free_seen EXCEPT ![w] = -1]
  /\ hashes' = [hashes EXCEPT ![w] = << >>]
  /\ hash_AB' = [hash_AB EXCEPT ![w] = << >>]
  /\ outcome' = [outcome EXCEPT ![job[w]] = how]

\* One of the hardware_concurrency threads of the pool takes the oldest
\* job of the queue.  Idle threads are interchangeable, so the
\* lowest-numbered one stands for whichever wakes.
Take(w) ==
  /\ pc[w] = "idle"
  /\ ~crashed
  /\ w <= hardware_concurrency
  /\ \A v \in Workers : pc[v] = "idle" => w <= v
  /\ queue # << >>
  /\ job' = [job EXCEPT ![w] = Head(queue)]
  /\ queue' = Tail(queue)
  /\ Goto(w, "BuildFlowgraph")
  /\ UNCHANGED main_vars
  /\ UNCHANGED <<pushed, mutex, processed_functions, free_space, index,
                 branching, outcome, faults, crashed>>
  /\ UNCHANGED local_vars

\* Mutant: the counter is bumped twice per job.
CountProcessed_Twice == processed_functions' = processed_functions + 2

\* Mutant: the increment is lost.
CountProcessed_Lost == UNCHANGED processed_functions

\* (*processed_functions)++ after BuildFlowgraph.
CountProcessed == processed_functions' = processed_functions + 1

\* Mutant: the size test uses < instead of <=.
TooSmall_Strict(nodes) == nodes < minimum_size

\* The size test of the job.
TooSmall(nodes) == nodes <= minimum_size

\* The graph is built and counted, then the size test ends the job or not.
BuildFlowgraph(w) ==
  /\ pc[w] = "BuildFlowgraph"
  /\ ~crashed
  /\ CountProcessed
  /\ \E nodes \in BranchingNodeCounts :
       /\ branching' = [branching EXCEPT ![job[w]] = nodes]
       /\ IF TooSmall(nodes)
            THEN Return(w, "skipped_size")
            ELSE /\ Goto(w, "GetIndexFileFreeSpace")
                 /\ UNCHANGED <<job, outcome>>
                 /\ UNCHANGED local_vars
  /\ UNCHANGED main_vars
  /\ UNCHANGED <<queue, pushed, mutex, free_space, index, faults, crashed>>

\* Mutant: the capacity test is gone.
IndexFull_Never(free) == FALSE

\* Mutant: exactly the margin counts as full too.
IndexFull_Inclusive(free) == free <= SafetyMargin

\* Mutant: the margin is 1 << 13 instead of 1 << 14.
IndexFull_SmallMargin(free) == free < 8192

\* Mutant: the capacity test only refuses an index with no space at all.
IndexFull_OnlyEmpty(free) == free = 0

\* The capacity test of the job.
IndexFull(free) == free < SafetyMargin

GetIndexFileFreeSpace(w) ==
  /\ pc[w] = "GetIndexFileFreeSpace"
  /\ ~crashed
  /\ IF IndexFull(free_space)
       THEN Return(w, "index_full")
       ELSE /\ Goto(w, "lock")
            /\ free_seen' = [free_seen EXCEPT ![w] = free_space]
            /\ UNCHANGED <<job, outcome, hashes, hash_AB>>
  /\ UNCHANGED main_vars
  /\ UNCHANGED <<queue, pushed, mutex, processed_functions, free_space,
                 index, branching, faults, crashed>>

\* std::mutex: lock blocks until the mutex is free.
MutexAcquire(w) == mutex = 0 /\ mutex' = w
MutexRelease(w) == mutex' = 0

\* Mutant: the constructor is entered without taking the mutex.
Lock_Missing(w) ==
  /\ pc[w] = "lock"
  /\ ~crashed
  /\ Goto(w, "DyninstFeatureGenerator")
  /\ UNCHANGED main_vars
  /\ UNCHANGED <<queue, pushed, job, mutex, processed_functions, free_space,
                 index, branching, outcome, faults, crashed>>
  /\ UNCHANGED local_vars

\* mutex_pointer->lock()
Lock(w) ==
  /\ pc[w] = "lock"
  /\ ~crashed
  /\ MutexAcquire(w)
  /\ Goto(w, "DyninstFeatureGenerator")
  /\ UNCHANGED main_vars
  /\ UNCHANGED <<queue, pushed, job, processed_functions, free_space, index,
                 branching, outcome, faults, crashed>>
  /\ UNCHANGED local_vars

\* Mutant: mutex_pointer->unlock() is missing after the constructor.
DyninstFeatureGenerator_NoUnlock(w) ==
  /\ pc[w] = "DyninstFeatureGenerator"
  /\ ~crashed
  /\ Goto(w, "CalculateFunctionSimHash")
  /\ UNCHANGED main_vars
  /\ UNCHANGED <<queue, pushed, job, mutex, processed_functions, free_space,
                 index, branching, outcome, faults, crashed>>
  /\ UNCHANGED local_vars

\* The constructor runs, then mutex_pointer->unlock().
DyninstFeatureGenerator(w) ==
  /\ pc[w] = "DyninstFeatureGenerator"
  /\ ~crashed
  /\ MutexRelease(w)
  /\ Goto(w, "CalculateFunctionSimHash")
  /\ UNCHANGED main_vars
  /\ UNCHANGED <<queue, pushed, job, processed_functions, free_space, index,
                 branching, outcome, faults, crashed>>
  /\ UNCHANGED local_vars

\* hashes[i] of the C++ vector (0-based): the element, or, past the end,
\* whatever the memory behind the buffer holds.
VectorRead(v, i) == IF i < Len(v) THEN {v[i + 1]} ELSE Garbage

\* hasher.CalculateFunctionSimHash(&generator, 128, &hashes);
\* hash_A = hashes[0]; hash_B = hashes[1].  A read past the end of the
\* vector may also fault and kill the process.
HashAndRead(w, len) ==
  /\ hashes' = [hashes EXCEPT ![w] = SimHash(job[w], len)]
  /\ \/ /\ \E a \in VectorRead(SimHash(job[w], len), 0),
               b \in VectorRead(SimHash(job[w], len), 1) :
              hash_AB' = [hash_AB EXCEPT ![w] = <<a, b>>]
        /\ Goto(w, "lock_guard")
        /\ UNCHANGED crashed
     \/ /\ len < 2
        /\ crashed' = TRUE
        /\ UNCHANGED <<pc, hash_AB>>

CalculateFunctionSimHash(w) ==
  /\ pc[w] = "CalculateFunctionSimHash"
  /\ ~crashed
  /\ HashAndRead(w, ContractLength)
  /\ UNCHANGED main_vars
  /\ UNCHANGED <<queue, pushed, job, mutex, processed_functions, free_space,
                 index, branching, free_seen, outcome, faults>>

\* The same statements when the hasher hands back a vector of another
\* length.
MalformedSimHash(w) ==
  /\ pc[w] = "CalculateFunctionSimHash"
  /\ ~crashed
  /\ faults < MaxFaults
  /\ faults' = faults + 1
  /\ \E len \in MalformedLengths : HashAndRead(w, len)
  /\ UNCHANGED main_vars
  /\ UNCHANGED <<queue, pushed, job, mutex, processed_functions, free_space,
                 index, branching, free_seen, outcome>>

\* std::lock_guard<std::mutex> lock(*mutex_pointer)
LockGuard(w) ==
  /\ pc[w] = "lock_guard"
  /\ ~crashed
  /\ MutexAcquire(w)
  /\ Goto(w, "AddFunction")
  /\ UNCHANGED main_vars
  /\ UNCHANGED <<queue, pushed, job, processed_functions, free_space, index,
                 branching, outcome, faults, crashed>>
  /\ UNCHANGED local_vars

\* SimHashSearchIndex::AddFunction: the entry is stored when the index file
\* has room for it, and boost::interprocess::bad_alloc is thrown otherwise.
HasRoom == free_space >= EntryCost

\* Mutant: hash_B and hash_A are passed in the wrong order.
AddFunction_SwappedHashes(w) ==
  /\ pc[w] = "AddFunction"
  /\ ~crashed
  /\ IF HasRoom
       THEN /\ index' = index \cup
                 {IndexEntry(hash_AB[w][2], hash_AB[w][1], file_id, job[w])}
            /\ free_space' = free_space - EntryCost
            /\ Return(w, "added")
       ELSE /\ Return(w, "bad_alloc")
            /\ UNCHANGED <<index, free_space>>
  /\ MutexRelease(w)
  /\ UNCHANGED main_vars
  /\ UNCHANGED <<queue, pushed, processed_functions, branching, faults,
                 crashed>>

\* Mutant: no try/catch, so bad_alloc leaves the thread function and
\* std::terminate ends the process.
AddFunction_NoCatch(w) ==
  /\ pc[w] = "AddFunction"
  /\ ~crashed
  /\ IF HasRoom
       THEN /\ index' = index \cup
                 {IndexEntry(hash_AB[w][1], hash_AB[w][2], file_id, job[w])}
            /\ free_space' = free_space - EntryCost
            /\ Return(w, "added")
            /\ MutexRelease(w)
            /\ UNCHANGED crashed
       ELSE /\ crashed' = TRUE
            /\ UNCHANGED <<index, free_space, pc, job, mutex, outcome>>
            /\ UNCHANGED local_vars
  /\ UNCHANGED main_vars
  /\ UNCHANGED <<queue, pushed, processed_functions, branching, faults>>

\* Mutant: the mutex is locked and unlocked by hand around AddFunction, so
\* the bad_alloc path leaves it locked.
AddFunction_KeepsLock(w) ==
  /\ pc[w] = "AddFunction"
  /\ ~crashed
  /\ IF HasRoom
       THEN /\ index' = index \cup
                 {IndexEntry(hash_AB[w][1], hash_AB[w][2], file_id, job[w])}
            /\ free_space' = free_space - EntryCost
            /\ Return(w, "added")
            /\ MutexRelease(w)
       ELSE /\ Return(w, "bad_alloc")
            /\ UNCHANGED <<index, free_space, mutex>>
  /\ UNCHANGED main_vars
  /\ UNCHANGED <<queue, pushed, processed_functions, branching, faults,
                 crashed>>

\* try { AddFunction } catch (bad_alloc&) { printf }; the block ends, the
\* lock_guard releases the mutex and the job returns.
AddFunction(w) ==
  /\ pc[w] = "AddFunction"
  /\ ~crashed
  /\ IF HasRoom
       THEN /\ index' = index \cup
                 {IndexEntry(hash_AB[w][1], hash_AB[w][2], file_id, job[w])}
            /\ free_space' = free_space - EntryCost
            /\ Return(w, "added")
       ELSE /\ Return(w, "bad_alloc")
            /\ UNCHANGED <<index, free_space>>
  /\ MutexRelease(w)
  /\ UNCHANGED main_vars
  /\ UNCHANGED <<queue, pushed, processed_functions, branching, faults,
                 crashed>>

Next ==
  \/ ParseCommandLineFlags
  \/ CheckInput
  \/ OpenSearchIndex
  \/ LoadDisassembly
  \/ CheckFunctions
  \/ LoopContinue
  \/ Push
  \/ Stop
  \/ \E w \in Workers : Take(w)
  \/ \E w \in Workers : BuildFlowgraph(w)
  \/ \E w \in Workers : GetIndexFileFreeSpace(w)
  \/ \E w \in Workers : Lock(w)
  \/ \E w \in Workers : DyninstFeatureGenerator(w)
  \/ \E w \in Workers : CalculateFunctionSimHash(w)
  \/ \E w \in Workers : LockGuard(w)
  \/ \E w \in Workers : AddFunction(w)

Spec == Init /\ [][Next]_vars

\* The program with a hasher that may break its contract.
NextFault ==
  \/ Next
  \/ \E w \in Workers : MalformedSimHash(w)

SpecFault == Init /\ [][NextFault]_vars

\* The statements of main, and the statements of pool thread w.
MainStep ==
  \/ ParseCommandLineFlags
  \/ CheckInput
  \/ OpenSearchIndex
  \/ LoadDisassembly
  \/ CheckFunctions
  \/ LoopContinue
  \/ Push
  \/ Stop

WorkerStep(w) ==
  \/ Take(w)
  \/ BuildFlowgraph(w)
  \/ GetIndexFileFreeSpace(w)
  \/ Lock(w)
  \/ DyninstFeatureGenerator(w)
  \/ CalculateFunctionSimHash(w)
  \/ LockGuard(w)
  \/ AddFunction(w)

\* Every thread that can run keeps being scheduled.
SpecFair ==
  /\ Spec
  /\ WF_vars(MainStep)
  /\ \A w \in Workers : WF_vars(WorkerStep(w))

TypeOK ==
  /\ main_pc \in {"ParseCommandLineFlags", "check_input",
                  "SimHashSearchIndex", "Load", "check_functions", "loop",
                  "Stop", "exit"}
  /\ exit_code \in {-1, 0, 1}
  /\ number_of_functions \in 0..MaxFunctions
  /\ hardware_concurrency \in 0..NumWorkers
  /\ pushed \in 0..MaxFunctions
  /\ processed_functions \in 0..MaxFunctions
  /\ mutex \in {0} \cup Workers
  /\ free_space \in Nat
  /\ \A a \in Addresses : outcome[a] \in Outcomes

\* ================================================================ claims
HasEntry(a) == \E e \in index : e.address = a
\* The step writes an entry for address a (or one is there already).
EntryWritten(a) == \E e \in index' : e.address = a
\* The index file has been opened.
Opened == main_pc \notin {"ParseCommandLineFlags", "check_input",
                          "SimHashSearchIndex"}
\* Free space of the index file when it was opened.
InitialFree == free_space + EntryCost * Cardinality(index)
\* pool.Stop(true) has returned and main has returned 0.
Completed == main_pc = "exit" /\ exit_code = 0
\* The loop has passed function a and did not skip it for shared blocks.
NotSkipped(a) == ~(FLAGS_no_shared_blocks /\ a \in shared_functions)
WasPushed(a) == a < next_function /\ NotSkipped(a)
\* Worker w's job ends with this step.
JobReturns(w) == pc[w] # "idle" /\ pc'[w] = "idle"
\* The free space the job of w saw (or is seeing) at its capacity check.
CheckedFree(w) ==
  IF pc[w] = "GetIndexFileFreeSpace" THEN free_space ELSE free_seen[w]
\* What the entry of a well-formed fingerprint of function a looks like.
ExpectedEntry(a) ==
  IndexEntry(SimHash(a, ContractLength)[1], SimHash(a, ContractLength)[2],
             file_id, a)

\* ---- C1
\* C1 as claimed: when a job ends, an entry has been written for its
\* function if and only if the function passed the filter (not skipped for
\* shared blocks, more branching nodes than the threshold), the job saw at
\* least the safety margin free at its capacity check, and extraction
\* yielded hash_A and hash_B.
C1_Claim ==
  [][\A w \in Workers :
       JobReturns(w) =>
         (EntryWritten(job[w]) <=>
            /\ NotSkipped(job[w])
            /\ branching'[job[w]] > minimum_size
            /\ CheckedFree(w) >= SafetyMargin
            /\ hash_AB[w] # << >>)]_vars

\* C1 as amended: the same equivalence with one more condition on the
\* right, that AddFunction did not throw bad_alloc; and at every moment an
\* entry belongs to a pushed function above the size threshold.
C1_Amended ==
  /\ [](\A a \in Addresses :
          HasEntry(a) => WasPushed(a) /\ branching[a] > minimum_size)
  /\ [][\A w \in Workers :
          JobReturns(w) =>
            (EntryWritten(job[w]) <=>
               /\ NotSkipped(job[w])
               /\ branching'[job[w]] > minimum_size
               /\ CheckedFree(w) >= SafetyMargin
               /\ hash_AB[w] # << >>
               /\ outcome'[job[w]] # "bad_alloc")]_vars

\* One function was inserted, another passed every test and lost the space.
C1_Witness ==
  \E a, b \in Addresses :
    /\ outcome[a] = "added" /\ HasEntry(a)
    /\ outcome[b] = "bad_alloc" /\ ~HasEntry(b)

\* ---- C2
\* C2 as claimed: no worker reads the free space of the index while
\* another worker is inside AddFunction.
C2_Claim ==
  \A r, a \in Workers :
    r # a => ~(pc[r] = "GetIndexFileFreeSpace" /\ pc[a] = "AddFunction")

\* ---- C3
\* A worker is constructing the feature generator or writing the index.
InProtectedRegion(w) == pc[w] \in {"DyninstFeatureGenerator", "AddFunction"}

\* C3: at most one worker at a time is inside a protected region
\* (generator construction or index write).
C3_MutualExclusion ==
  \A v, w \in Workers :
    v # w => ~(InProtectedRegion(v) /\ InProtectedRegion(w))

\* One worker is inside a region while another waits for the mutex.
C3_Witness ==
  \E v, w \in Workers :
    /\ v # w
    /\ InProtectedRegion(v)
    /\ pc[w] \in {"lock", "lock_guard"}

\* ---- C4
\* C4 as claimed: once the free space is below the safety margin, no step
\* adds an entry to the index.
C4_Claim ==
  [][(Opened /\ free_space < SafetyMargin) => index' = index]_vars

\* C4 as amended: once the free space is below the safety margin, a job
\* that makes its capacity check ends there without touching the index;
\* an entry is only added by a job that saw at least the margin free at its
\* own check.
C4_Amended ==
  /\ [][\A w \in Workers :
          (pc[w] = "GetIndexFileFreeSpace" /\ free_space < SafetyMargin
             /\ pc'[w] # pc[w])
          => (pc'[w] = "idle" /\ index' = index)]_vars
  /\ [][\A w \in Workers :
          (pc[w] = "AddFunction" /\ JobReturns(w) /\ index' # index)
          => free_seen[w] >= SafetyMargin]_vars

\* Two jobs inserted although the first insert left less than the margin,
\* and a job that checked afterwards was refused.
C4_Witness ==
  /\ free_space < SafetyMargin
  /\ Cardinality(index) = 2
  /\ \E a \in Addresses : outcome[a] = "index_full"

\* ---- C5
\* The index a run leaves when one worker runs the jobs in queue order.
RECURSIVE SequentialIndex(_, _, _)
SequentialIndex(a, free, acc) ==
  IF a > number_of_functions THEN acc
  ELSE IF ~NotSkipped(a) \/ branching[a] <= minimum_size
            \/ free < SafetyMargin \/ free < EntryCost
         THEN SequentialIndex(a + 1, free, acc)
         ELSE SequentialIndex(a + 1, free - EntryCost,
                              acc \cup {ExpectedEntry(a)})

\* C5 as claimed: whatever the interleaving, a completed run leaves the
\* entries the one-worker run leaves on the same functions and index.
C5_Claim == Completed => index = SequentialIndex(1, InitialFree, {})

\* C5 as amended: a completed run during which the free space never fell
\* below the safety margin leaves the same entries in every interleaving,
\* those of the one-worker run.
C5_Amended ==
  (Completed /\ free_space >= SafetyMargin)
    => index = SequentialIndex(1, InitialFree, {})

C5_Witness ==
  /\ Completed
  /\ free_space >= SafetyMargin
  /\ Cardinality(index) >= 2
  /\ \E a \in Addresses : outcome[a] = "skipped_size"

\* ---- C6
\* C6: when pool.Stop(true) has returned, the processed counter equals the
\* number of jobs pushed.
C6_ProcessedEqualsPushed == Completed => processed_functions = pushed

C6_Witness ==
  /\ Completed
  /\ pushed >= 2
  /\ \E a, b \in Addresses :
       outcome[a] = "skipped_size" /\ outcome[b] \in {"added", "bad_alloc"}
  /\ \E c \in 1..number_of_functions : ~WasPushed(c)

\* ---- C7
\* Scenario A: three functions, no_shared_blocks set, one function shares
\* blocks, one has 2 branching nodes, one has 10, and the index has room.
ScenarioA ==
  /\ number_of_functions = 3
  /\ FLAGS_no_shared_blocks
  /\ InitialFree >= SafetyMargin
  /\ \E a, b, c \in 1..3 :
       /\ shared_functions = {a}
       /\ b # a /\ c # a
       /\ branching[b] = 2
       /\ branching[c] = 10

\* C7 as claimed: scenario A ends with one entry and a processed count of 3.
C7_Claim ==
  (Completed /\ ScenarioA)
    => (Cardinality(index) = 1 /\ processed_functions = 3)

\* C7 as amended: scenario A ends with one entry, that of the 10-node
\* function, and a processed count of 2: the function sharing blocks is
\* skipped before a job is pushed, so nothing counts it.
C7_Amended ==
  (Completed /\ ScenarioA)
    => /\ Cardinality(index) = 1
       /\ \A e \in index : branching[e.address] = 10
       /\ processed_functions = 2

C7_Witness == Completed /\ ScenarioA

\* ---- C8
\* Scenario B: the index file had less than the safety margin free when it
\* was opened.
ScenarioB == Opened /\ InitialFree < SafetyMargin

\* C8 as claimed: in scenario B every job ends with the index-full outcome
\* and nothing is written.
C8_Claim ==
  ScenarioB =>
    /\ index = {}
    /\ \A a \in Addresses : outcome[a] \in {"none", "index_full"}

\* C8 as amended: in scenario B nothing is written; a job ends with the
\* index-full outcome when its function has more branching nodes than the
\* threshold, and with the size skip otherwise.
C8_Amended ==
  ScenarioB =>
    /\ index = {}
    /\ \A a \in Addresses :
         outcome[a] # "none" =>
           outcome[a] = IF branching[a] > minimum_size
                          THEN "index_full" ELSE "skipped_size"

C8_Witness ==
  /\ ScenarioB
  /\ Completed
  /\ \E a, b \in Addresses :
       outcome[a] = "index_full" /\ outcome[b] = "skipped_size"

\* ---- C9
\* The vector the hasher handed back has another length than two.
Malformed(v) == v # << >> /\ Len(v) # ContractLength

\* C9 as claimed: the process is never killed, and a job holding a
\* malformed hasher result ends with the extraction-fault outcome without
\* writing to the index.
C9_Claim ==
  [][/\ ~crashed'
     /\ \A w \in Workers :
          (Malformed(hashes[w]) /\ pc'[w] # pc[w])
          => (index' = index /\ outcome'[job[w]] = "extraction_fault")]_vars

\* ---- C10
\* C10: when AddFunction has no room, the job's step leaves the index and
\* its free space as they were, records the bad_alloc outcome, returns,
\* frees the mutex, kills nothing and disturbs no other job; and a run
\* with such a job still ends with every pushed job run and exit status 0.
C10_OutOfSpaceIsLocal ==
  /\ [][\A w \in Workers :
          (pc[w] = "AddFunction" /\ ~HasRoom
             /\ (pc'[w] # pc[w] \/ crashed' # crashed))
          => /\ index' = index
             /\ free_space' = free_space
             /\ outcome'[job[w]] = "bad_alloc"
             /\ pc'[w] = "idle"
             /\ mutex' = 0
             /\ ~crashed'
             /\ queue' = queue
             /\ \A v \in Workers \ {w} : pc'[v] = pc[v] /\ job'[v] = job[v]]_vars
  /\ []((main_pc = "exit" /\ \E a \in Addresses : outcome[a] = "bad_alloc")
          => /\ exit_code = 0
             /\ \A a \in 1..number_of_functions :
                  WasPushed(a) => outcome[a] # "none")

\* A run completed although one job lost the race for the last space.
C10_Witness ==
  /\ Completed
  /\ mutex = 0
  /\ \E a \in Addresses : outcome[a] = "bad_alloc" /\ ~HasEntry(a)

\* ---- C11
\* C11: with every runnable thread scheduled again and again, a run that
\* enters the loop over the functions ends with pool.Stop(true) returned
\* and exit status 0, and every pushed job reaches its outcome (so no
\* order of lock acquisitions deadlocks); and when Stop has returned the
\* queue is empty, every thread is idle and no pushed job is unfinished.
C11_DrainReturns ==
  /\ (main_pc = "loop") ~> Completed
  /\ \A a \in Addresses : WasPushed(a) ~> (outcome[a] # "none")
  /\ [](Completed =>
          /\ queue = << >>
          /\ \A w \in Workers : pc[w] = "idle" /\ job[w] = 0
          /\ \A a \in 1..number_of_functions :
               WasPushed(a) => outcome[a] # "none")

\* Stop returned after every function of the binary went through both
\* critical sections.
C11_Witness ==
  /\ Completed
  /\ number_of_functions = MaxFunctions
  /\ pushed = number_of_functions
  /\ \A a \in 1..number_of_functions : outcome[a] \in {"added", "bad_alloc"}

\* ---- C12
\* C12: a function whose branching-node count is at most the threshold
\* (the threshold itself included) never has an entry and no job is past
\* the size test with it; and the step that finds the count ends the job
\* with the size skip, leaving the mutex, the index and its free space
\* as they were and the capacity unread.
C12_SmallNeverIndexed ==
  /\ [](\A a \in Addresses :
          (branching[a] # 0 /\ branching[a] <= minimum_size)
          => /\ ~HasEntry(a)
             /\ outcome[a] = "skipped_size"
             /\ \A w \in Workers : job[w] # a)
  /\ [][\A w \in Workers :
          (pc[w] = "BuildFlowgraph" /\ pc'[w] # pc[w]
             /\ branching'[job[w]] <= minimum_size)
          => /\ pc'[w] = "idle"
             /\ outcome'[job[w]] = "skipped_size"
             /\ mutex' = mutex
             /\ index' = index
             /\ free_space' = free_space
             /\ free_seen'[w] = -1]_vars

\* A function with exactly the threshold was skipped while another one of
\* the same run was inserted.
C12_Witness ==
  \E a, b \in Addresses :
    /\ branching[a] = minimum_size
    /\ outcome[a] = "skipped_size"
    /\ branching[b] > minimum_size
    /\ HasEntry(b)

\* ---- C13
\* The loop has handed function a to the pool: it waits in the queue, a
\* thread runs it, or it has reached its outcome.
Submitted(a) ==
  \/ \E i \in 1..Len(queue) : queue[i] = a
  \/ \E w \in Workers : job[w] = a
  \/ outcome[a] # "none"

\* C13: with no_shared_blocks set, a function sharing basic blocks is
\* never handed to the pool and never has an entry; with the flag clear,
\* every function the loop has passed is handed to the pool whether it
\* shares blocks or not, and once its job has ended a missing entry always
\* has another cause (size skip, index full, out of space).
C13_SharedBlocks ==
  /\ FLAGS_no_shared_blocks =>
       \A a \in shared_functions : ~Submitted(a) /\ ~HasEntry(a)
  /\ ~FLAGS_no_shared_blocks =>
       \A a \in 1..(next_function - 1) :
         /\ Submitted(a)
         /\ (outcome[a] # "none" /\ ~HasEntry(a))
            => outcome[a] \in {"skipped_size", "index_full", "bad_alloc"}

\* With the flag clear a function sharing blocks was inserted.
C13_Witness ==
  /\ ~FLAGS_no_shared_blocks
  /\ \E a \in shared_functions : HasEntry(a) /\ outcome[a] = "added"

\* ---- C14
\* The pool is not constructed, nothing has been pushed and nothing has
\* run.
NothingScheduled ==
  /\ hardware_concurrency = 0
  /\ pushed = 0
  /\ queue = << >>
  /\ \A w \in Workers : pc[w] = "idle" /\ job[w] = 0
  /\ mutex = 0
  /\ processed_functions = 0
  /\ index = {}
  /\ \A a \in Addresses : outcome[a] = "none"

\* C14: an empty input path and an empty list of functions each end main
\* at their check with a non-zero status, a step out of Load that yields
\* no functions ends the process with a non-zero status, and status 0 is
\* reached only with a path and at least one function; up to the loop, and
\* in every run that ended with a non-zero status, no job was pushed, no
\* thread ran, the processed count is 0 and the index is unwritten.
C14_StartupFailures ==
  /\ []((main_pc \notin {"loop", "Stop", "exit"} \/
         (main_pc = "exit" /\ exit_code # 0)) => NothingScheduled)
  /\ []((main_pc = "exit" /\ exit_code = 0)
          => ~binary_path_empty /\ number_of_functions > 0)
  /\ [][((main_pc = "check_input" /\ binary_path_empty) \/
         (main_pc = "check_functions" /\ number_of_functions = 0) \/
         (main_pc = "Load" /\ main_pc' # "check_functions"))
        => (main_pc' = "exit" /\ exit_code' # 0)]_vars

\* The binary loaded with no function in it: main returned -1 after the
\* index had been opened.
C14_Witness ==
  /\ main_pc = "exit"
  /\ exit_code = -1
  /\ ~binary_path_empty
  /\ number_of_functions = 0
  /\ free_space \in InitialFreeSpace
  /\ NothingScheduled

\* ---- C15
\* How many jobs exist or existed for function a: waiting in the queue,
\* running on a thread, or ended.
JobsFor(a) ==
  Cardinality({i \in 1..Len(queue) : queue[i] = a})
    + Cardinality({w \in Workers : job[w] = a})
    + (IF outcome[a] # "none" THEN 1 ELSE 0)

\* C15: at every moment there is at most one job per function, none for a
\* function the loop has not reached, and at most one entry per address;
\* and a step through AddFunction is made for a function that has no
\* entry and no outcome yet and gives it its outcome, so AddFunction runs
\* at most once per address and the index grows by at most that one entry.
C15_OneJobPerFunction ==
  /\ [](\A a \in Addresses :
          /\ JobsFor(a) <= 1
          /\ a >= next_function => JobsFor(a) = 0
          /\ Cardinality({e \in index : e.address = a}) <= 1)
  /\ [](Cardinality(index) <= pushed)
  /\ [][\A w \in Workers :
          (pc[w] = "AddFunction" /\ pc'[w] # pc[w])
          => /\ outcome[job[w]] = "none"
             /\ ~HasEntry(job[w])
             /\ outcome'[job[w]] # "none"
             /\ index' \subseteq index \cup {ExpectedEntry(job[w])}]_vars

\* Every function of the run was inserted, each one once.
C15_Witness ==
  /\ Completed
  /\ number_of_functions >= 2
  /\ Cardinality(index) = number_of_functions
  /\ \A a \in 1..number_of_functions : JobsFor(a) = 1 /\ HasEntry(a)

\* ---- C16
\* C16: a thread that computes a fingerprint does not hold the mutex; the
\* mutex is held only between lock() and the end of the constructor, and
\* between the lock_guard and the end of its block.
C16_HashingUnlocked ==
  \A w \in Workers :
    /\ pc[w] = "CalculateFunctionSimHash" => mutex # w
    /\ mutex = w => pc[w] \in {"DyninstFeatureGenerator", "AddFunction"}

\* Two threads compute fingerprints at the same time, the mutex free.
C16_Witness ==
  /\ mutex = 0
  /\ \E v, w \in Workers :
       /\ v # w
       /\ pc[v] = "CalculateFunctionSimHash"
       /\ pc[w] = "CalculateFunctionSimHash"

\* A fingerprint is computed while another thread is inside the
\* constructor, and while another thread is inside AddFunction.
C16_OverlapsConstruction ==
  \E v, w \in Workers :
    /\ pc[v] = "CalculateFunctionSimHash"
    /\ pc[w] = "DyninstFeatureGenerator" /\ mutex = w

C16_OverlapsAddFunction ==
  \E v, w \in Workers :
    /\ pc[v] = "CalculateFunctionSimHash"
    /\ pc[w] = "AddFunction" /\ mutex = w

\* ---- C17
\* C17: the step of the capacity check ends the job with the index-full
\* outcome, leaving mutex, index and free space alone, when it reads less
\* than 16384 bytes, and goes on to lock() for the constructor when it
\* reads 16384 bytes or more; so every job between lock() and AddFunction
\* has read at least 16384, and a function with the index-full outcome
\* has no entry.
C17_PreCheck ==
  /\ [][\A w \in Workers :
          (pc[w] = "GetIndexFileFreeSpace" /\ pc'[w] # pc[w])
          => IF free_space < 16384
               THEN /\ pc'[w] = "idle"
                    /\ outcome'[job[w]] = "index_full"
                    /\ mutex' = mutex
                    /\ index' = index
                    /\ free_space' = free_space
               ELSE /\ pc'[w] = "lock"
                    /\ free_seen'[w] = free_space
                    /\ outcome'[job[w]] = "none"]_vars
  /\ [](\A w \in Workers :
          pc[w] \in {"lock", "DyninstFeatureGenerator",
                     "CalculateFunctionSimHash", "lock_guard", "AddFunction"}
          => free_seen[w] >= 16384)
  /\ [](\A a \in Addresses : outcome[a] = "index_full" => ~HasEntry(a))

\* The index was opened with exactly 16384 bytes free: the job that read
\* them inserted its function, and a later job read less and was skipped.
C17_Witness ==
  /\ Opened
  /\ InitialFree = 16384
  /\ \E a, b \in Addresses :
       /\ outcome[a] = "added" /\ HasEntry(a)
       /\ outcome[b] = "index_full"

\* ---- C18
\* The functions whose job is past BuildFlowgraph and the increment, and
\* the functions whose job has ended.
PastGraph ==
  {a \in Addresses : outcome[a] # "none"}
    \cup {job[w] : w \in {v \in Workers :
                              pc[v] \notin {"idle", "BuildFlowgraph"}}}
Ended == {a \in Addresses : outcome[a] # "none"}

\* C18: no step lowers the processed counter; it changes exactly in the
\* step of a job that goes from BuildFlowgraph on to its size test, by
\* one; and at every moment it is the number of jobs past graph
\* construction, at least the number of ended jobs and at most the number
\* of pushed jobs, which is at most the number of functions.
C18_ProcessedCounter ==
  /\ [][/\ processed_functions' >= processed_functions
        /\ \A w \in Workers :
             (pc[w] = "BuildFlowgraph" /\ pc'[w] # pc[w])
             => processed_functions' = processed_functions + 1
        /\ processed_functions' # processed_functions
             => \E w \in Workers :
                  /\ pc[w] = "BuildFlowgraph" /\ pc'[w] # pc[w]
                  /\ outcome[job[w]] = "none"
                  /\ free_seen[w] = -1]_vars
  /\ [](/\ processed_functions = Cardinality(PastGraph)
        /\ processed_functions >= Cardinality(Ended)
        /\ processed_functions <= pushed
        /\ pushed <= number_of_functions)

\* One job has ended, another is past its graph and still running, a
\* third is pushed and not yet counted.
C18_Witness ==
  /\ Cardinality(Ended) >= 1
  /\ processed_functions > Cardinality(Ended)
  /\ processed_functions < pushed

\* ---- C19
\* C19: a job's last step, whatever its outcome, leaves the mutex not held
\* by its thread; a thread waiting at lock() or at the lock_guard does not
\* hold the mutex already; the mutex is held exactly when some thread is
\* between lock() and unlock() or inside the lock_guard's block, by that
\* thread; and it is free when Stop has returned.
C19_MutexReleased ==
  /\ [][\A w \in Workers :
          JobReturns(w)
          => /\ mutex' # w
             /\ outcome'[job[w]] \in
                  {"skipped_size", "index_full", "added", "bad_alloc"}]_vars
  /\ [](\A w \in Workers :
          /\ pc[w] \in {"idle", "lock", "lock_guard"} => mutex # w
          /\ mutex = w <=> InProtectedRegion(w))
  /\ []((\A w \in Workers : ~InProtectedRegion(w)) => mutex = 0)
  /\ [](Completed => mutex = 0)

\* Stop returned with the mutex free after jobs that ended with an insert,
\* with bad_alloc caught and with the index-full skip.
C19_Witness ==
  /\ Completed
  /\ mutex = 0
  /\ \E a, b, c \in Addresses :
       /\ outcome[a] = "added"
       /\ outcome[b] = "bad_alloc"
       /\ outcome[c] = "index_full"

\* ---- C20
\* The threads whose job has passed the capacity check and has not yet
\* come back from AddFunction.
InFlight ==
  {w \in Workers : pc[w] \in {"lock", "DyninstFeatureGenerator",
                              "CalculateFunctionSimHash", "lock_guard",
                              "AddFunction"}}

\* The number of inserts with which the free space of the index first is
\* below the safety margin (0 when it was opened below it).
FirstBelow ==
  CHOOSE k \in 0..((InitialFree \div EntryCost) + 1) :
    /\ InitialFree - k * EntryCost < SafetyMargin
    /\ \A j \in 0..(k - 1) : InitialFree - j * EntryCost >= SafetyMargin

\* Entries inserted since the free space first was below the margin.
LateInserts ==
  IF free_space < SafetyMargin THEN Cardinality(index) - FirstBelow ELSE 0

\* C20: once the free space is below the safety margin no further job
\* passes the capacity check, and the entries inserted since then plus the
\* jobs still between check and write number at most the threads of the
\* pool minus one; so at most that many entries are inserted late, and
\* none with a pool of one thread.
C20_LateInserts ==
  /\ [][free_space < SafetyMargin => InFlight' \subseteq InFlight]_vars
  /\ []((hardware_concurrency >= 1 /\ free_space < SafetyMargin)
          => /\ LateInserts >= 0
             /\ LateInserts + Cardinality(InFlight)
                  <= hardware_concurrency - 1)
  /\ [](hardware_concurrency = 1 => LateInserts = 0)

\* A pool of two threads inserted one entry after the free space had
\* fallen below the margin.
C20_Witness ==
  /\ hardware_concurrency = 2
  /\ free_space < SafetyMargin
  /\ LateInserts = 1
  /\ InFlight = {}

\* A pool of one thread met the margin: the insert that crossed it was the
\* last, although the file had room for one more entry.
C20_SingleThread ==
  /\ hardware_concurrency = 1
  /\ Completed
  /\ free_space < SafetyMargin
  /\ HasRoom
  /\ \E a \in Addresses : outcome[a] = "index_full"
=============================================================================
